---------------------------- MODULE Spec2Model ----------------------------
(***************************************************************************)
(* A model of ferris-fetch (src/src/main.rs): the formatter functions      *)
(* format_uptime, format_bytes and progress_bar, and the layout/render     *)
(* engine print_info with its raster path (render_ferris, print_ferris,    *)
(* print_lines_with_offset) and its ASCII fallback loop.                   *)
(*                                                                         *)
(* Strings the program itself builds character by character (uptime,       *)
(* byte sizes, the bar, the truncated CPU name) are sequences of           *)
(* one-character strings.  Opaque fact strings (user, host, os, kernel,    *)
(* shell) are carried as their chars().count(), the only thing print_info  *)
(* reads from them, and taken to be ASCII where bytes are counted.  The     *)
(* glyphs U+2588 and U+2591 of the bar are written "#" and "-".            *)
(*                                                                         *)
(* Output goes through io::stdout(), a line-buffered writer: the model     *)
(* keeps what the terminal has received (term, cursor, saved) apart from   *)
(* what stdout still holds (stdout_buf), so that a failed write leaves on  *)
(* each side what the program's writes leave there.                        *)
(***************************************************************************)
EXTENDS Integers, Sequences, FiniteSets, TLC

VARIABLES
    pc,         \* position of print_info (or of the function under call)
    args,       \* Args: [minimal, no_color, no_art]
    env,        \* terminal_size().0, and what the colored crate emits
    info,       \* SysInfo
    lines,      \* print_info's `lines` vector
    max_image_width, \* Option<u32>: None is -1
    image,      \* (width, height) returned by viuer::print, in cells
    idx,        \* loop index of the overlay loop / of the fallback loop
    term,       \* the commands written to the terminal so far, in order
    cursor,     \* cursor position, rows counted from the row print_info began on
    saved,      \* position stored by SavePosition
    raster,     \* how far the raster attempt of print_info got
    stdout_buf, \* the line buffer of io::stdout(): written, not yet sent
    call,       \* the arguments of the formatter call under check
    ret         \* its result

vars == <<pc, args, env, info, lines, max_image_width, image, idx, term,
          cursor, saved, raster, stdout_buf, call, ret>>

----------------------------------------------------------------------------
(* Integer helpers *)

Min(a, b) == IF a < b THEN a ELSE b
Max(a, b) == IF a > b THEN a ELSE b

\* u16::saturating_sub / usize::saturating_sub
SatSub(a, b) == IF a > b THEN a - b ELSE 0

U16_MAX == 65535

\* `x as u16` of a wider unsigned integer: truncation to the low 16 bits
AsU16(x) == x % (U16_MAX + 1)

RECURSIVE Dec(_)
\* format!("{}", n) of an unsigned integer: its decimal digits
Dec(n) ==
    LET d == <<"0", "1", "2", "3", "4", "5", "6", "7", "8", "9">>
    IN IF n < 10 THEN <<d[n + 1]>> ELSE Dec(n \div 10) \o <<d[(n % 10) + 1]>>

\* the characters of a string literal
Chars(s) ==
    CASE s = "d" -> <<"d">>
      [] s = "h" -> <<"h">>
      [] s = "m" -> <<"m">>
      [] s = " " -> <<" ">>
      [] s = "..." -> <<".", ".", ".">>
      [] s = " GB" -> <<" ", "G", "B">>
      [] s = " MB" -> <<" ", "M", "B">>
      [] s = "." -> <<".">>
      [] s = "[" -> <<"[">>
      [] s = "] " -> <<"]", " ">>
      [] s = "%" -> <<"%">>
      [] s = " (" -> <<" ", "(">>
      [] s = " cores)" -> <<" ", "c", "o", "r", "e", "s", ")">>

\* str::repeat
Repeat(c, n) == [i \in 1..n |-> c]

RECURSIVE Join(_, _)
\* Vec<String>::join(sep)
Join(parts, sep) ==
    IF parts = <<>> THEN <<>>
    ELSE IF Len(parts) = 1 THEN parts[1]
    ELSE parts[1] \o sep \o Join(Tail(parts), sep)

----------------------------------------------------------------------------
(* format_uptime *)

format_uptimeNoFallback(seconds) ==
    LET days  == seconds \div 86400
        hours == (seconds % 86400) \div 3600
        mins  == (seconds % 3600) \div 60
        p1 == IF days > 0 THEN <<Dec(days) \o Chars("d")>> ELSE <<>>
        p2 == IF hours > 0 THEN p1 \o <<Dec(hours) \o Chars("h")>> ELSE p1
        p3 == IF mins > 0 THEN p2 \o <<Dec(mins) \o Chars("m")>> ELSE p2
    IN Join(p3, Chars(" "))

format_uptime(seconds) ==
    LET days  == seconds \div 86400
        hours == (seconds % 86400) \div 3600
        mins  == (seconds % 3600) \div 60
        p1 == IF days > 0 THEN <<Dec(days) \o Chars("d")>> ELSE <<>>
        p2 == IF hours > 0 THEN p1 \o <<Dec(hours) \o Chars("h")>> ELSE p1
        p3 == IF mins > 0 \/ p2 = <<>>
              THEN p2 \o <<Dec(mins) \o Chars("m")>> ELSE p2
    IN Join(p3, Chars(" "))

----------------------------------------------------------------------------
(* format_bytes *)

GB == 1073741824
MB == 1048576

\* format!("{:.1}", bytes as f64 / unit as f64) followed by the unit.  The
\* unit is a power of two, so the quotient is exact in f64 and {:.1} rounds
\* its exact value to the nearest tenth, ties to even.  The arithmetic is
\* split at 2^10 so that no intermediate value exceeds 2^31 - 1.
format_bytes(bytes) ==
    LET unit  == IF bytes >= GB THEN GB ELSE MB
        whole == bytes \div unit
        r     == bytes % unit
        half  == unit \div 2
        q     == half \div 1024
        c     == r \div 1024
        d     == r % 1024
        e     == 5 * c + ((5 * d) \div 1024)
        f     == (5 * d) % 1024
        t0    == e \div q                     \* floor(10 * r / unit)
        rem   == (e % q) * 1024 + f           \* (5 * r) mod half
        up    == IF 2 * rem > half \/ (2 * rem = half /\ t0 % 2 = 1)
                 THEN 1 ELSE 0
        t     == t0 + up
        int   == IF t = 10 THEN whole + 1 ELSE whole
        tenth == IF t = 10 THEN 0 ELSE t
    IN Dec(int) \o Chars(".") \o Dec(tenth)
       \o (IF bytes >= GB THEN Chars(" GB") ELSE Chars(" MB"))

----------------------------------------------------------------------------
(* progress_bar *)

\* The integers n in 0..256 for which the f64 computation (n/100.0)*100.0
\* is below n, so that the cast `as u8` truncates it to n - 1 (IEEE-754
\* binary64, round to nearest even).  For every other ratio used/total the
\* f64 result truncates to floor(100 * used / total).
F64BelowInteger ==
    {29, 57, 58, 113, 114, 115, 116, 201, 203, 205, 207, 226, 228, 230,
     232, 251, 253, 255}

U8_MAX == 255

RECURSIVE ScaledDiv(_, _, _, _, _)
\* quotient and remainder of k * r by t for r < t, by k additions of r, so
\* that no intermediate value exceeds t
ScaledDiv(k, r, t, q, rem) ==
    IF k = 0 THEN [q |-> q, rem |-> rem]
    ELSE IF rem >= t - r THEN ScaledDiv(k - 1, r, t, q + 1, rem - (t - r))
    ELSE ScaledDiv(k - 1, r, t, q, rem + r)

\* (used as f64 / total as f64 * 100.0) as u8: truncation toward zero,
\* saturating at u8::MAX
Percentage(used, total) ==
    IF total > 0
    THEN IF used \div total >= 3 THEN U8_MAX
         ELSE LET tens  == ScaledDiv(10, used % total, total, 0, 0)
                  frac  == ScaledDiv(10, tens.rem, total, 0, 0)
                  exact == 100 * (used \div total) + 10 * tens.q + frac.q
                  trunc == IF frac.rem = 0 /\ exact \in F64BelowInteger
                           THEN exact - 1 ELSE exact
              IN Min(trunc, U8_MAX)
    ELSE 0

\* The result of progress_bar.  `width - filled` on usize underflows when
\* filled > width: a panic with overflow checks, and without them a wrapped
\* count near 2^64 whose repeat() panics on capacity overflow; either way
\* the call does not return (ok = FALSE).
progress_bar(used, total, width, no_color) ==
    LET percentage == Percentage(used, total)
        filled == (percentage * width) \div 100
    IN IF filled > width
       THEN [ok |-> FALSE, percentage |-> percentage, filled |-> filled,
             bar |-> <<>>, color |-> "none"]
       ELSE [ok |-> TRUE, percentage |-> percentage, filled |-> filled,
             bar |-> Chars("[") \o Repeat("#", filled)
                     \o Repeat("-", width - filled) \o Chars("] ")
                     \o Dec(percentage) \o Chars("%"),
             color |-> IF no_color THEN "none"
                       ELSE IF percentage > 80 THEN "Red"
                       ELSE IF percentage > 60 THEN "Yellow"
                       ELSE "accent"]

----------------------------------------------------------------------------
(* Theme, colouring and the mascot constants *)

\* char::to_lowercase on the letters a theme name is matched by
LowerChar(c) ==
    CASE c = "A" -> "a" [] c = "B" -> "b" [] c = "C" -> "c" [] c = "D" -> "d"
      [] c = "E" -> "e" [] c = "F" -> "f" [] c = "G" -> "g" [] c = "H" -> "h"
      [] c = "I" -> "i" [] c = "J" -> "j" [] c = "K" -> "k" [] c = "L" -> "l"
      [] c = "M" -> "m" [] c = "N" -> "n" [] c = "O" -> "o" [] c = "P" -> "p"
      [] c = "Q" -> "q" [] c = "R" -> "r" [] c = "S" -> "s" [] c = "T" -> "t"
      [] c = "U" -> "u" [] c = "V" -> "v" [] c = "W" -> "w" [] c = "X" -> "x"
      [] c = "Y" -> "y" [] c = "Z" -> "z" [] OTHER -> c

RECURSIVE to_lowercase(_)
\* str::to_lowercase
to_lowercase(s) ==
    IF Len(s) = 0 THEN ""
    ELSE LowerChar(SubSeq(s, 1, 1)) \o to_lowercase(SubSeq(s, 2, Len(s)))

\* Theme::get: each slot is the number of characters of the colour's ANSI
\* foreground code ("37": 2, "38;2;255;128;0": 14, "38;2;255;200;100": 16)
ThemeGet(name) ==
    IF to_lowercase(name) \in {"ocean", "forest", "sunset", "mono"}
    THEN [primary |-> 2, secondary |-> 2, accent |-> 2, info |-> 2]
    ELSE [primary |-> 14, secondary |-> 14, accent |-> 16, info |-> 2]

\* chars().count() of s.color(c)[.bold()].to_string() for a string of n
\* characters: when the colored crate colourises, ESC [ (1;)? code m before
\* the text and ESC [ 0 m after it; otherwise the text alone
Colored(n, code, bold, colorize) ==
    IF colorize THEN 2 + (IF bold THEN 2 ELSE 0) + code + 1 + n + 4 ELSE n

\* The UTF-8 layout of a string: runs of n characters of w bytes each.
\* Everything the program prints is one byte a character except its own
\* glyphs U+2500, U+2588 and U+2591, three bytes each.
Ascii(n) == <<[n |-> n, w |-> 1]>>
Glyphs(n) == <<[n |-> n, w |-> 3]>>

RECURSIVE RunsChars(_)
\* chars().count()
RunsChars(runs) ==
    IF runs = <<>> THEN 0 ELSE Head(runs).n + RunsChars(Tail(runs))

RECURSIVE RunsBytes(_)
\* len()
RunsBytes(runs) ==
    IF runs = <<>> THEN 0
    ELSE Head(runs).n * Head(runs).w + RunsBytes(Tail(runs))

RECURSIVE SplitRuns(_, _)
\* a string cut after its first j bytes: the whole characters among them,
\* the rest, and how many bytes of the first character of the rest the cut
\* has taken
SplitRuns(runs, j) ==
    IF runs = <<>> THEN [head |-> <<>>, tail |-> <<>>, part |-> 0]
    ELSE LET r == Head(runs)
         IN IF j >= r.n * r.w
            THEN LET rest == SplitRuns(Tail(runs), j - r.n * r.w)
                 IN [head |-> <<r>> \o rest.head, tail |-> rest.tail,
                     part |-> rest.part]
            ELSE LET c == j \div r.w
                 IN [head |-> IF c = 0 THEN <<>> ELSE <<[n |-> c, w |-> r.w]>>,
                     tail |-> <<[n |-> r.n - c, w |-> r.w]>> \o Tail(runs),
                     part |-> j % r.w]

\* the layout of s.color(c)[.bold()].to_string()
ColoredRuns(runs, code, bold, colorize) ==
    IF colorize
    THEN Ascii(2 + (IF bold THEN 2 ELSE 0) + code + 1) \o runs \o Ascii(4)
    ELSE runs

\* FERRIS_ART and FERRIS_SMALL, each line as its length
FERRIS_ART == <<23, 23, 23, 23, 23, 23, 23, 23>>
FERRIS_SMALL == <<11, 11, 11>>

MIN_IMAGE_WIDTH == 10
MAX_IMAGE_WIDTH == 40

None == -1

SeqMax(s) ==
    IF s = <<>> THEN 0
    ELSE CHOOSE m \in {s[k] : k \in 1..Len(s)} : \A k \in 1..Len(s) : s[k] <= m

\* let art = if args.minimal { FERRIS_SMALL } else { FERRIS_ART }
Art(a) == IF a.minimal THEN FERRIS_SMALL ELSE FERRIS_ART

ArtWidth(a) == IF a.no_art THEN 0 ELSE SeqMax(Art(a))

\* info_cols
InfoCols(a, term_cols) ==
    IF a.no_art THEN term_cols
    ELSE SatSub(term_cols, AsU16(ArtWidth(a) + 2))

----------------------------------------------------------------------------
(* CPU model truncation *)

\* format!(" ({} cores)", info.cpu_cores)
CpuSuffix(cores) == Chars(" (") \o Dec(cores) \o Chars(" cores)")

\* "CPU: ".len()
CpuLabelLen == 5

\* max_cpu_len
MaxCpuLen(info_cols, cores) ==
    Max(SatSub(info_cols, CpuLabelLen + Len(CpuSuffix(cores))), 4)

CpuDisplayOffByOne(cpu, max_cpu_len) ==
    IF Len(cpu) >= max_cpu_len
    THEN SubSeq(cpu, 1, Min(Len(cpu), SatSub(max_cpu_len, 3))) \o Chars("...")
    ELSE cpu

\* cpu_display
CpuDisplay(cpu, max_cpu_len) ==
    IF Len(cpu) > max_cpu_len
    THEN SubSeq(cpu, 1, Min(Len(cpu), SatSub(max_cpu_len, 3))) \o Chars("...")
    ELSE cpu

----------------------------------------------------------------------------
(* The display lines of print_info *)

\* One (label, value) pair of `lines`: label and value are the character
\* counts of the two strings, layout is the UTF-8 layout of the value (a
\* label has one byte a character); kind names the push that made the pair.
Line(kind, label, layout) ==
    [kind |-> kind, label |-> label, value |-> RunsChars(layout),
     layout |-> layout]

\* chars().count() of the entry of line_strings made from a pair, which is
\* also what the fallback loop prints for it
LineWidth(l) == IF l.label = 0 THEN l.value ELSE l.label + 2 + l.value

\* the Memory value: "{} / {} {}" of the two sizes and the bar, which is
\* "[", the glyphs, and "] N%"
MemInfo(a, e, i) ==
    LET th  == ThemeGet(a.theme)
        bar == progress_bar(i.memory_used, i.memory_total, 10, a.no_color)
        code == IF bar.color = "accent" THEN th.accent ELSE 2
        glyphs == Cardinality({k \in 1..Len(bar.bar) :
                                  bar.bar[k] \in {"#", "-"}})
        plain == Ascii(1) \o Glyphs(glyphs)
                 \o Ascii(Len(bar.bar) - 1 - glyphs)
    IN Ascii(Len(format_bytes(i.memory_used)) + 3
             + Len(format_bytes(i.memory_total)) + 1)
       \o (IF bar.color = "none" THEN plain
           ELSE ColoredRuns(plain, code, FALSE, e.colorize))

\* label_color: the label in bold primary unless --no-color
LabelColor(a, e, n) ==
    IF a.no_color THEN n
    ELSE Colored(n, ThemeGet(a.theme).primary, TRUE, e.colorize)

\* value_color: the value in the info colour unless --no-color.  The
\* facts of SysInfo are taken to be ASCII.
ValueColor(a, e, n) ==
    IF a.no_color THEN Ascii(n)
    ELSE ColoredRuns(Ascii(n), ThemeGet(a.theme).info, FALSE, e.colorize)

\* the CPU and Memory pairs, pushed in full mode only
FullModeLines(a, e, i) ==
    IF ~a.minimal
    THEN LET suffix == CpuSuffix(i.cpu_cores)
             shown  == CpuDisplay(i.cpu,
                           MaxCpuLen(InfoCols(a, e.term_cols), i.cpu_cores))
         IN <<Line("CPU", LabelColor(a, e, 3),
                   ValueColor(a, e, Len(shown) + Len(suffix))),
              Line("Memory", LabelColor(a, e, 6), MemInfo(a, e, i))>>
    ELSE <<>>

\* "███".color(c).to_string() for each of eight colours, collected
PaletteRow(e) ==
    LET block == ColoredRuns(Glyphs(3), 2, FALSE, e.colorize)
    IN block \o block \o block \o block \o block \o block \o block \o block

PaletteLinesAlways(a, e) ==
    <<Line("palette", 0, PaletteRow(e)),
      Line("bright_palette", 0, PaletteRow(e))>>

\* the two palette rows, pushed in full mode with colours only
PaletteLines(a, e) ==
    IF ~a.minimal /\ ~a.no_color
    THEN <<Line("palette", 0, PaletteRow(e)),
           Line("bright_palette", 0, PaletteRow(e))>>
    ELSE <<>>

\* `lines` as print_info has built it when it reaches line_strings
BuildLines(a, e, i) ==
    LET th == ThemeGet(a.theme)
        title == i.username + 1 + i.hostname
    IN <<Line("title", 0,
              IF a.no_color THEN Ascii(title)
              ELSE ColoredRuns(Ascii(title), th.primary, TRUE, e.colorize)),
         Line("separator", 0,
              IF a.no_color THEN Glyphs(title)
              ELSE ColoredRuns(Glyphs(title), th.secondary, FALSE,
                               e.colorize)),
         Line("OS", LabelColor(a, e, 2), ValueColor(a, e, i.os)),
         Line("Kernel", LabelColor(a, e, 6), ValueColor(a, e, i.kernel)),
         Line("Uptime", LabelColor(a, e, 6), ValueColor(a, e, Len(i.uptime))),
         Line("Shell", LabelColor(a, e, 5), ValueColor(a, e, i.shell))>>
       \o FullModeLines(a, e, i)
       \o <<Line("blank", 0, <<>>)>>
       \o PaletteLines(a, e)

\* the maximum of line.chars().count() over line_strings, before the cast
MaxInfoChars(ls) == SeqMax([k \in 1..Len(ls) |-> LineWidth(ls[k])])

\* max_image_width from available_width
MaxImageWidth(available_width) ==
    IF available_width >= MIN_IMAGE_WIDTH
    THEN Min(available_width, MAX_IMAGE_WIDTH)
    ELSE None

----------------------------------------------------------------------------
(* States shared by the specifications *)

\* main's Args::parse(): the flags print_info reads, and the theme name
ArgsSet ==
    [minimal : BOOLEAN, no_color : BOOLEAN, no_art : BOOLEAN,
     theme : {"rust", "Ocean"}]

NoArgs == [minimal |-> FALSE, no_color |-> TRUE, no_art |-> FALSE,
           theme |-> "rust"]
NoEnv == [term_cols |-> 80, colorize |-> FALSE]
NoInfo == [username |-> 0, hostname |-> 0, os |-> 0, kernel |-> 0,
           uptime |-> <<>>, shell |-> 0, cpu |-> <<>>, cpu_cores |-> 0,
           memory_used |-> 0, memory_total |-> 0]
NoImage == [width |-> 0, height |-> 0]
Origin == [row |-> 0, col |-> 0]
NotTried == [state |-> "not_tried", at |-> "none"]

\* stdout's line buffer with nothing in it
EmptyBuf == <<>>

\* print_info has not been entered: nothing built, nothing written
Untouched ==
    /\ lines = <<>>
    /\ max_image_width = None
    /\ image = NoImage
    /\ idx = 0
    /\ term = <<>>
    /\ cursor = Origin
    /\ saved = Origin
    /\ raster = NotTried
    /\ stdout_buf = EmptyBuf

\* a formatter is called on its own: no print_info state
FormatterOnly ==
    /\ args = NoArgs
    /\ env = NoEnv
    /\ info = NoInfo
    /\ Untouched

PrintInfoVars ==
    <<args, env, info, lines, max_image_width, image, idx, term, cursor, saved,
      raster, stdout_buf>>

----------------------------------------------------------------------------
(* format_uptime called on its own *)

MaxDays == 2

UptimeInputs ==
    {d * 86400 + h * 3600 + m * 60 + r :
        d \in 0..MaxDays, h \in {0, 1, 12, 23}, m \in {0, 1, 2, 59},
        r \in {0, 1, 5, 30, 59}}

InitUptime ==
    /\ pc = "call"
    /\ call \in [seconds : UptimeInputs]
    /\ ret = <<>>
    /\ FormatterOnly

CallFormatUptime ==
    /\ pc = "call"
    /\ ret' = format_uptime(call.seconds)
    /\ pc' = "returned"
    /\ UNCHANGED <<call, PrintInfoVars>>

SpecUptime == InitUptime /\ [][CallFormatUptime]_vars

----------------------------------------------------------------------------
(* progress_bar called on its own *)

MaxUsed == 12
MaxTotal == 6
MaxWidth == 10

BarInputs ==
    [used : 0..MaxUsed, total : 0..MaxTotal, width : 0..MaxWidth,
     no_color : BOOLEAN]
    \cup [used : {29, 61, 85, 100}, total : {100}, width : {MaxWidth},
          no_color : BOOLEAN]

InitBar ==
    /\ pc = "call"
    /\ call \in BarInputs
    /\ ret = <<>>
    /\ FormatterOnly

CallProgressBar ==
    /\ pc = "call"
    /\ ret' = progress_bar(call.used, call.total, call.width, call.no_color)
    /\ pc' = "returned"
    /\ UNCHANGED <<call, PrintInfoVars>>

SpecBar == InitBar /\ [][CallProgressBar]_vars

----------------------------------------------------------------------------
(* The CPU truncation of print_info on its own *)

MaxCpuChars == 12
MaxCpuCols == 56

\* a CPU brand string of n characters
CpuName(n) ==
    SubSeq(<<"A", "M", "D", " ", "R", "y", "z", "e", "n", " ", "7", " ",
             "5", "8", "0", "0", "X", " ", "8", "-", "C", "o", "r", "e">>,
           1, n)

CpuInputs ==
    [no_art : BOOLEAN, term_cols : (0..MaxCpuCols) \cup {80, U16_MAX},
     cpu : {CpuName(n) : n \in 0..MaxCpuChars}, cpu_cores : {1, 16, 128}]

InitCpu ==
    /\ pc = "call"
    /\ call \in CpuInputs
    /\ ret = <<>>
    /\ FormatterOnly

\* lines 405-421 of print_info, in full mode
CallCpuDisplay ==
    /\ pc = "call"
    /\ ret' = CpuDisplay(call.cpu,
                  MaxCpuLen(InfoCols([minimal |-> FALSE, no_art |-> call.no_art],
                                     call.term_cols),
                            call.cpu_cores))
    /\ pc' = "returned"
    /\ UNCHANGED <<call, PrintInfoVars>>

SpecCpu == InitCpu /\ [][CallCpuDisplay]_vars

----------------------------------------------------------------------------
(* print_info *)

MaxImageHeight == 12

\* heights viuer::print may report: below and above the line count
ImageHeights == {2, MaxImageHeight}

\* SysInfo::collect() results.  Byte counts stay below 2^31.
FactsSet ==
    { [username |-> 3, hostname |-> 3, os |-> 9, kernel |-> 5,
       uptime |-> format_uptime(3725), shell |-> 4, cpu |-> CpuName(6),
       cpu_cores |-> 4, memory_used |-> 805306368,
       memory_total |-> 1610612736],
      [username |-> 7, hostname |-> 7, os |-> 15, kernel |-> 7,
       uptime |-> format_uptime(0), shell |-> 7, cpu |-> CpuName(24),
       cpu_cores |-> 16, memory_used |-> 0, memory_total |-> 0],
      [username |-> 4, hostname |-> 9, os |-> 12, kernel |-> 17,
       uptime |-> format_uptime(90000), shell |-> U16_MAX - 8,
       cpu |-> CpuName(12), cpu_cores |-> 8, memory_used |-> 1073741823,
       memory_total |-> 1073741824],
      [username |-> 4, hostname |-> 9, os |-> 12, kernel |-> 17,
       uptime |-> format_uptime(90000), shell |-> U16_MAX - 6,
       cpu |-> CpuName(12), cpu_cores |-> 8, memory_used |-> 1073741823,
       memory_total |-> 1073741824],
      [username |-> 3, hostname |-> 3, os |-> 9, kernel |-> 5,
       uptime |-> format_uptime(3725), shell |-> 1017, cpu |-> CpuName(6),
       cpu_cores |-> 4, memory_used |-> 805306368,
       memory_total |-> 1610612736],
      [username |-> 4, hostname |-> 9, os |-> 12, kernel |-> 17,
       uptime |-> format_uptime(90000), shell |-> U16_MAX - 8,
       cpu |-> CpuName(12), cpu_cores |-> 8, memory_used |-> 200,
       memory_total |-> 100] }

\* terminal_size().0: too narrow for an image, narrower than the image's
\* widest form, either side of the narrowest image, and the default
TermCols ==
    {0, 40, 53, 54, 80}

\* main: --no-color turns the colored crate's override off.  A theme other
\* than the default is tried where its colours show, the shell whose row
\* fills the line buffer to the last byte where the row is plain, and the
\* memory use above the total where progress_bar is called.
Init ==
    /\ pc = "start"
    /\ args \in ArgsSet
    /\ env \in [term_cols : TermCols, colorize : BOOLEAN]
    /\ args.no_color => ~env.colorize
    /\ args.theme # "rust" => env.colorize
    /\ info \in FactsSet
    /\ info.shell = 1017 => args.minimal /\ args.no_color /\ args.no_art
    /\ info.memory_used > info.memory_total => ~args.minimal
    /\ Untouched
    /\ call = <<>>
    /\ ret = <<>>

\* one command written to the terminal, with the cursor position it was
\* issued at
CmdAt(op, a, b, row, col) ==
    [op |-> op, a |-> a, b |-> b, row |-> row, col |-> col]

\* a command issued at the current cursor position
Cmd(op, a, b) == CmdAt(op, a, b, cursor.row, cursor.col)

\* max_info_width + 2, where max_info_width is the maximum cast `as u16`
InfoWidthPlus2(ls) == AsU16(MaxInfoChars(ls)) + 2

\* available_width, the u16 sum wrapped when it overflows
AvailableWidth(ls, term_cols) ==
    SatSub(term_cols, AsU16(InfoWidthPlus2(ls)))

\* where print_info goes once the widths are known: the let-chain's first
\* three conditions
AfterLayout(a, mw) ==
    IF ~a.no_art /\ ~a.minimal /\ mw # None THEN "render_ferris" ELSE "fallback"

\* print_info up to the if-let chain.  progress_bar is called for the
\* Memory line in full mode; when it does not return neither does print_info.
Layout ==
    /\ pc = "start"
    /\ LET ls == BuildLines(args, env, info)
           mw == MaxImageWidth(AvailableWidth(ls, env.term_cols))
           bar == progress_bar(info.memory_used, info.memory_total, 10,
                               args.no_color)
       IN IF ~args.minimal /\ ~bar.ok
          THEN /\ pc' = "panic_bar"
               /\ UNCHANGED <<lines, max_image_width, raster>>
          ELSE /\ lines' = ls
               /\ max_image_width' = mw
               /\ pc' = AfterLayout(args, mw)
               /\ raster' = IF AfterLayout(args, mw) = "render_ferris"
                            THEN [state |-> "running", at |-> "none"]
                            ELSE raster
    /\ idx' = 0
    /\ UNCHANGED <<args, env, info, image, term, cursor, saved, stdout_buf,
                   call, ret>>

\* `max_info_width + 2` on u16 with overflow checks compiled in.  The sum
\* is reached when the lines are built: in full mode progress_bar has
\* returned.
LayoutOverflowPanic ==
    /\ pc = "start"
    /\ args.minimal \/ progress_bar(info.memory_used, info.memory_total, 10,
                                    args.no_color).ok
    /\ InfoWidthPlus2(BuildLines(args, env, info)) > U16_MAX
    /\ pc' = "panic_overflow"
    /\ UNCHANGED <<args, env, info, lines, max_image_width, image, idx, term,
                   cursor, saved, raster, stdout_buf, call, ret>>

----------------------------------------------------------------------------
(* io::stdout() and the terminal *)

\* One write to stdout: a text (op "art" or "line", a the row it belongs
\* to, runs its layout), an escape sequence (op the crossterm command, a its
\* argument), a line terminator, or a call of flush().  sent counts the
\* bytes of it the terminal holds without effect so far: the first bytes of
\* an escape sequence, or of a character, whose rest is still to come.
Piece(op, a, runs) == [op |-> op, a |-> a, runs |-> runs, sent |-> 0]
Esc(op, a) == Piece(op, a, <<>>)
Newline == Piece("newline", 0, <<>>)
Flush == Piece("flush", 0, <<>>)

IsText(p) == p.op \in {"art", "line"}

\* the bytes of a piece still to be sent: ESC [ n A, ESC [ n B,
\* ESC [ c+1 G, ESC 7, ESC 8
PieceBytes(p) ==
    (CASE IsText(p) -> RunsBytes(p.runs)
       [] p.op = "newline" -> 1
       [] p.op \in {"SavePosition", "RestorePosition"} -> 2
       [] p.op \in {"MoveUp", "MoveDown"} -> 3 + Len(Dec(p.a))
       [] p.op = "MoveToColumn" -> 3 + Len(Dec(p.a + 1))
       [] OTHER -> 0) - p.sent

RECURSIVE BufBytes(_)
BufBytes(buf) ==
    IF buf = <<>> THEN 0 ELSE PieceBytes(Head(buf)) + BufBytes(Tail(buf))

\* capacity in bytes of the line buffer behind io::stdout()
LineBufferCapacity == 1024

\* io::stdout() and the terminal behind it, as one value
Stdout ==
    [term |-> term, cursor |-> cursor, saved |-> saved, buf |-> stdout_buf]

SetStdout(W) ==
    /\ term' = W.term
    /\ cursor' = W.cursor
    /\ saved' = W.saved
    /\ stdout_buf' = W.buf

\* The terminal receives a piece.  A text that continues the text the
\* terminal received last is logged with it as one command.
Apply(W, p) ==
    LET c == W.cursor
        n == Len(W.term)
        b == RunsChars(p.runs)
        joins == /\ n > 0
                 /\ W.term[n].op = p.op
                 /\ W.term[n].a = p.a
                 /\ W.term[n].row = c.row
                 /\ W.term[n].col + W.term[n].b = c.col
        logged == Append(W.term, CmdAt(p.op, p.a, 0, c.row, c.col))
    IN CASE IsText(p) ->
              [W EXCEPT !.term = IF joins THEN [W.term EXCEPT ![n].b = @ + b]
                                 ELSE Append(W.term,
                                             CmdAt(p.op, p.a, b, c.row, c.col)),
                        !.cursor = [c EXCEPT !.col = c.col + b]]
         [] p.op = "newline" ->
              [W EXCEPT !.term = logged,
                        !.cursor = [row |-> c.row + 1, col |-> 0]]
         [] p.op = "MoveUp" ->
              [W EXCEPT !.term = logged,
                        !.cursor = [c EXCEPT !.row = c.row - p.a]]
         [] p.op = "MoveDown" ->
              [W EXCEPT !.term = logged,
                        !.cursor = [c EXCEPT !.row = c.row + p.a]]
         [] p.op = "MoveToColumn" ->
              [W EXCEPT !.term = logged, !.cursor = [c EXCEPT !.col = p.a]]
         [] p.op = "SavePosition" ->
              [W EXCEPT !.term = logged, !.saved = c]
         [] p.op = "RestorePosition" ->
              [W EXCEPT !.term = logged, !.cursor = W.saved]
         [] OTHER -> W

RECURSIVE Deliver(_, _)
\* the terminal receives pieces in order
Deliver(W, pieces) ==
    IF pieces = <<>> THEN W
    ELSE Deliver(Apply(W, Head(pieces)), Tail(pieces))

\* a flush of the buffer that sends all of it
DeliverAll(W) == [Deliver(W, W.buf) EXCEPT !.buf = <<>>]

RECURSIVE Cut(_, _, _)
\* The terminal receives the first j bytes of the pieces buf, and the rest
\* stays in W.buf.  A piece takes effect when its last byte has arrived; of
\* a text, every whole character that has arrived is on the terminal.
Cut(W, buf, j) ==
    IF buf = <<>> THEN [W EXCEPT !.buf = <<>>]
    ELSE LET p == Head(buf)
         IN IF j >= PieceBytes(p) THEN Cut(Apply(W, p), Tail(buf),
                                           j - PieceBytes(p))
            ELSE IF IsText(p)
            THEN LET sp == SplitRuns(p.runs, j + p.sent)
                     D == IF sp.head = <<>> THEN W
                          ELSE Apply(W, [p EXCEPT !.runs = sp.head])
                 IN [D EXCEPT !.buf = <<[p EXCEPT !.runs = sp.tail,
                                                   !.sent = sp.part]>>
                                      \o Tail(buf)]
            ELSE [W EXCEPT !.buf = <<[p EXCEPT !.sent = @ + j]>> \o Tail(buf)]

\* how many bytes into a piece every count is tried
MaxAccepted == 1

\* further counts tried
AcceptedChunks == {100, 4096}

RECURSIVE PieceStarts(_, _)
\* the offsets, in the bytes of buf, at which a piece begins
PieceStarts(buf, at) ==
    IF buf = <<>> THEN {}
    ELSE {at} \cup PieceStarts(Tail(buf), at + PieceBytes(Head(buf)))

\* How many of the bytes of buf, handed to write(2), the terminal has taken
\* when an error comes back: any number short of all of them, counted from
\* the first byte of buf.  The counts tried are those that end up to
\* MaxAccepted bytes into any piece of buf, all but the last byte, and
\* AcceptedChunks.
AcceptedBytes(buf) ==
    LET total == BufBytes(buf)
        tried == UNION {s..(s + MaxAccepted) : s \in PieceStarts(buf, 0)}
                     \cup {total - 1} \cup AcceptedChunks
    IN {j \in tried : j >= 0 /\ j < total}

\* A flush of the buffer that fails: the terminal has taken the first bytes
\* of the buffer and the rest stays buffered.
PartialFlush(W) ==
    {Cut(W, W.buf, j) : j \in AcceptedBytes(W.buf)}

\* A text written through to the terminal that fails: the terminal has
\* taken its first bytes and the rest is dropped.
PartialThrough(W, p) ==
    {[Cut(W, <<p>>, j) EXCEPT !.buf = W.buf] : j \in AcceptedBytes(<<p>>)}

EndsLine(buf) == buf # <<>> /\ buf[Len(buf)].op = "newline"

\* a write that holds no line terminator first flushes a buffer that ends
\* with one
Completed(W) == IF EndsLine(W.buf) THEN DeliverAll(W) ELSE W

\* the piece is shorter than the room left in the buffer
Fits(W, p) == PieceBytes(p) < LineBufferCapacity - BufBytes(W.buf)

\* the piece is longer than the room left: the buffer is flushed for it
Spills(W, p) == PieceBytes(p) > LineBufferCapacity - BufBytes(W.buf)

Buffered(W, p) ==
    IF PieceBytes(p) = 0 THEN W ELSE [W EXCEPT !.buf = Append(@, p)]

\* One write_all on io::stdout(), or one flush(), that returns Ok.  A
\* terminator that finds the buffer empty is written through; otherwise it
\* is buffered and the buffer flushed.  Anything else is buffered when it
\* fits, written through when it is as long as the buffer, and buffered
\* after a flush when it is in between.
PieceOk(W, p) ==
    CASE p.op = "flush" -> DeliverAll(W)
      [] p.op = "newline" -> DeliverAll([W EXCEPT !.buf = Append(@, p)])
      [] OTHER ->
            LET W0 == Completed(W)
                W1 == IF Spills(W0, p) THEN DeliverAll(W0) ELSE W0
            IN IF Fits(W0, p) THEN Buffered(W0, p)
               ELSE IF PieceBytes(p) >= LineBufferCapacity THEN Apply(W1, p)
               ELSE Buffered(W1, p)

\* The ways the same call returns Err.  A flush of an empty buffer writes
\* nothing and cannot fail.  A terminator that finds the buffer full has the
\* buffer flushed before it is buffered: when that flush fails the
\* terminator is not in the buffer, and when the flush after it fails it is
\* all the buffer holds.
PieceErr(W, p) ==
    CASE p.op = "flush" -> IF W.buf = <<>> THEN {} ELSE PartialFlush(W)
      [] p.op = "newline" ->
            IF W.buf = <<>> THEN {W}
            ELSE IF Spills(W, p)
            THEN PartialFlush(W)
                 \cup {[DeliverAll(W) EXCEPT !.buf = <<p>>]}
            ELSE PartialFlush([W EXCEPT !.buf = Append(@, p)])
      [] OTHER ->
            LET W0 == Completed(W)
                W1 == IF Spills(W0, p) THEN DeliverAll(W0) ELSE W0
            IN (IF EndsLine(W.buf) THEN PartialFlush(W) ELSE {})
               \cup (IF ~Fits(W0, p) /\ Spills(W0, p) /\ W0.buf # <<>>
                     THEN PartialFlush(W0) ELSE {})
               \cup (IF ~Fits(W0, p) /\ PieceBytes(p) >= LineBufferCapacity
                     THEN PartialThrough(W1, p) ELSE {})

RECURSIVE WriteOk(_, _)
\* a sequence of writes that all return Ok
WriteOk(W, pieces) ==
    IF pieces = <<>> THEN W
    ELSE WriteOk(PieceOk(W, Head(pieces)), Tail(pieces))

\* a sequence of writes of which one returns Err, which ends the sequence
WriteErr(W, pieces) ==
    UNION {PieceErr(WriteOk(W, SubSeq(pieces, 1, k - 1)), pieces[k]) :
              k \in 1..Len(pieces)}

----------------------------------------------------------------------------
(* The raster path *)

\* the steps of the raster path whose Result can be Err.  The closing
\* stdout.flush() is not one of them: it runs after writeln!(stdout) has
\* succeeded, with nothing left in the buffer to write.
RasterSteps ==
    {"render_ferris", "viuer_print", "move_up", "save_position", "line_move",
     "line_write", "final_move", "final_newline"}

OnRasterErrReturn == "done"

\* a failed `let Ok(..)` or `.is_ok()` falls out of the if to the loop
OnRasterErr == "fallback"

RenderFerrisOk ==
    /\ pc = "render_ferris"
    /\ pc' = "viuer_print"
    /\ UNCHANGED <<args, env, info, lines, max_image_width, image, idx, term,
                   cursor, saved, raster, stdout_buf, call, ret>>

\* viuer::print draws the image max_width cells wide and leaves the cursor
\* below it
ViuerPrintOk ==
    /\ pc = "viuer_print"
    /\ \E h \in ImageHeights :
        /\ image' = [width |-> max_image_width, height |-> h]
        /\ term' = Append(term, Cmd("image", max_image_width, h))
        /\ cursor' = [row |-> cursor.row + h, col |-> 0]
    /\ pc' = "move_up"
    /\ UNCHANGED <<args, env, info, lines, max_image_width, idx, saved,
                   raster, stdout_buf, call, ret>>

\* execute!(stdout, MoveUp(height as u16))
MoveUpPieces == <<Esc("MoveUp", AsU16(image.height)), Flush>>

MoveUpOk ==
    /\ pc = "move_up"
    /\ SetStdout(WriteOk(Stdout, MoveUpPieces))
    /\ pc' = "save_position"
    /\ UNCHANGED <<args, env, info, lines, max_image_width, image, idx,
                   raster, call, ret>>

TextOffsetNoGutter(width, term_cols) ==
    Min(Min(width, term_cols), U16_MAX)

\* offset
TextOffset(width, term_cols) ==
    Min(Min(width + 2, term_cols), U16_MAX)

\* execute!(stdout, MoveToColumn(0), SavePosition)
SavePositionPieces ==
    <<Esc("MoveToColumn", 0), Esc("SavePosition", 0), Flush>>

SavePositionOk ==
    /\ pc = "save_position"
    /\ SetStdout(WriteOk(Stdout, SavePositionPieces))
    /\ idx' = 0
    /\ pc' = IF Len(lines) > 0 THEN "line_move" ELSE "final_move"
    /\ UNCHANGED <<args, env, info, lines, max_image_width, image, raster,
                   call, ret>>

\* row
OverlayRow(i) == Min(i, U16_MAX)

\* execute!(stdout, RestorePosition, [MoveDown(row),] MoveToColumn(offset))
LineMovePieces ==
    LET row == OverlayRow(idx)
        offset == TextOffset(image.width, env.term_cols)
    IN <<Esc("RestorePosition", 0)>>
       \o (IF row = 0 THEN <<>> ELSE <<Esc("MoveDown", row)>>)
       \o <<Esc("MoveToColumn", offset), Flush>>

LineMoveOk ==
    /\ pc = "line_move"
    /\ SetStdout(WriteOk(Stdout, LineMovePieces))
    /\ pc' = "line_write"
    /\ UNCHANGED <<args, env, info, lines, max_image_width, image, idx,
                   raster, call, ret>>

\* the layout of the entry of line_strings made from a pair
LineLayout(l) ==
    IF l.label = 0 THEN l.layout ELSE Ascii(l.label + 2) \o l.layout

\* writeln!(stdout, "{line}")
LineWritePieces ==
    <<Piece("line", idx + 1, LineLayout(lines[idx + 1])), Newline>>

LineWriteOk ==
    /\ pc = "line_write"
    /\ SetStdout(WriteOk(Stdout, LineWritePieces))
    /\ idx' = idx + 1
    /\ pc' = IF idx + 1 < Len(lines) THEN "line_move" ELSE "final_move"
    /\ UNCHANGED <<args, env, info, lines, max_image_width, image, raster,
                   call, ret>>

\* final_height
FinalHeight(art_height, n) == Min(Max(art_height, n), U16_MAX)

\* execute!(stdout, RestorePosition, MoveDown(final_height), MoveToColumn(0))
FinalMovePieces ==
    <<Esc("RestorePosition", 0),
      Esc("MoveDown", FinalHeight(image.height, Len(lines))),
      Esc("MoveToColumn", 0), Flush>>

FinalMoveOk ==
    /\ pc = "final_move"
    /\ SetStdout(WriteOk(Stdout, FinalMovePieces))
    /\ pc' = "final_newline"
    /\ UNCHANGED <<args, env, info, lines, max_image_width, image, idx,
                   raster, call, ret>>

\* writeln!(stdout)
FinalNewlineOk ==
    /\ pc = "final_newline"
    /\ SetStdout(WriteOk(Stdout, <<Newline>>))
    /\ pc' = "flush"
    /\ UNCHANGED <<args, env, info, lines, max_image_width, image, idx,
                   raster, call, ret>>

\* stdout.flush(), Ok(()), and print_info's `return`
FlushOk ==
    /\ pc = "flush"
    /\ SetStdout(WriteOk(Stdout, <<Flush>>))
    /\ raster' = [state |-> "completed", at |-> "none"]
    /\ pc' = "done"
    /\ UNCHANGED <<args, env, info, lines, max_image_width, image, idx, call,
                   ret>>

\* what a step of the raster path writes to stdout; render_ferris writes
\* nothing and viuer::print's error leaves nothing behind
StepPieces(step) ==
    CASE step = "move_up" -> MoveUpPieces
      [] step = "save_position" -> SavePositionPieces
      [] step = "line_move" -> LineMovePieces
      [] step = "line_write" -> LineWritePieces
      [] step = "final_move" -> FinalMovePieces
      [] step = "final_newline" -> <<Newline>>
      [] OTHER -> <<>>

\* the ways a step of the raster path returns Err
ErrOutcomes(step) ==
    IF step \in {"render_ferris", "viuer_print"} THEN {Stdout}
    ELSE WriteErr(Stdout, StepPieces(step))

\* any step of the raster path returns Err
RasterErr ==
    /\ pc \in RasterSteps
    /\ \E W \in ErrOutcomes(pc) : SetStdout(W)
    /\ pc' = OnRasterErr
    /\ raster' = [state |-> "failed", at |-> pc]
    /\ idx' = 0
    /\ UNCHANGED <<args, env, info, lines, max_image_width, image, call, ret>>

----------------------------------------------------------------------------
(* The fallback loop *)

\* max_lines
MaxLines(a, ls) == Max(Len(Art(a)), Len(ls))

\* what one pass of the fallback loop writes: print!("{}  ", colored_art)
\* unless --no-art, then println! of the pair, or of nothing
FallbackPieces(i) ==
    LET w == ArtWidth(args)
        cell == IF args.no_color THEN w
                ELSE Colored(w, ThemeGet(args.theme).primary, FALSE,
                             env.colorize)
        row == IF i < Len(Art(args)) THEN i + 1 ELSE 0
        l == lines[i + 1]
    IN (IF args.no_art THEN <<>>
        ELSE <<Piece("art", row, Ascii(cell)), Piece("art", row, Ascii(2))>>)
       \o (IF i >= Len(lines) THEN <<>>
           ELSE IF l.label = 0 THEN <<Piece("line", i + 1, l.layout)>>
           ELSE <<Piece("line", i + 1, Ascii(l.label)),
                  Piece("line", i + 1, Ascii(2)),
                  Piece("line", i + 1, l.layout)>>)
       \o <<Newline>>

\* one iteration of `for i in 0..max_lines`
FallbackRow ==
    /\ pc = "fallback"
    /\ idx < MaxLines(args, lines)
    /\ SetStdout(WriteOk(Stdout, FallbackPieces(idx)))
    /\ idx' = idx + 1
    /\ pc' = IF idx + 1 < MaxLines(args, lines) THEN "fallback" ELSE "done"
    /\ UNCHANGED <<args, env, info, lines, max_image_width, image, raster,
                   call, ret>>

\* print! / println! panic when a write to stdout fails
FallbackPanic ==
    /\ pc = "fallback"
    /\ idx < MaxLines(args, lines)
    /\ \E W \in WriteErr(Stdout, FallbackPieces(idx)) : SetStdout(W)
    /\ pc' = "panic_stdout"
    /\ UNCHANGED <<args, env, info, lines, max_image_width, image, idx,
                   raster, call, ret>>

\* The panic unwinds out of main and the runtime's cleanup flushes what
\* stdout still holds, once, ignoring the result.
ExitCleanup ==
    /\ pc = "panic_stdout"
    /\ \E W \in {DeliverAll(Stdout)}
                \cup {[X EXCEPT !.buf = <<>>] : X \in PartialFlush(Stdout)} :
          SetStdout(W)
    /\ pc' = "exit_101"
    /\ UNCHANGED <<args, env, info, lines, max_image_width, image, idx,
                   raster, call, ret>>

Next ==
    \/ Layout
    \/ LayoutOverflowPanic
    \/ RenderFerrisOk
    \/ ViuerPrintOk
    \/ MoveUpOk
    \/ SavePositionOk
    \/ LineMoveOk
    \/ LineWriteOk
    \/ FinalMoveOk
    \/ FinalNewlineOk
    \/ FlushOk
    \/ RasterErr
    \/ FallbackRow
    \/ FallbackPanic
    \/ ExitCleanup

Spec == Init /\ [][Next]_vars

----------------------------------------------------------------------------
(* Helpers of the properties *)

RECURSIVE Split(_)
\* the space-separated components of a string
Split(s) ==
    IF \A k \in 1..Len(s) : s[k] # " " THEN <<s>>
    ELSE LET k == CHOOSE j \in 1..Len(s) :
                      s[j] = " " /\ \A m \in 1..(j - 1) : s[m] # " "
         IN <<SubSeq(s, 1, k - 1)>> \o Split(SubSeq(s, k + 1, Len(s)))

Digits == {"0", "1", "2", "3", "4", "5", "6", "7", "8", "9"}

\* digits followed by one of d, h, m
IsUnitToken(t) ==
    /\ Len(t) >= 2
    /\ t[Len(t)] \in {"d", "h", "m"}
    /\ \A k \in 1..(Len(t) - 1) : t[k] \in Digits

\* the positions of term that hold a command op
Positions(op) == {k \in 1..Len(term) : term[k].op = op}

\* the display lines the fallback loop has printed: in a run that tried the
\* raster path the art column is on, and each such line follows its art cell
IsFallbackLine(k) ==
    /\ term[k].op = "line"
    /\ \/ args.no_art
       \/ (k > 1 /\ term[k - 1].op = "art")

\* the display lines the overlay of print_lines_with_offset has written
IsOverlayLine(k) ==
    /\ term[k].op = "line"
    /\ ~IsFallbackLine(k)

\* the subsequence of term at the positions satisfying Test, in order
Pick(Test(_)) ==
    LET at == SelectSeq([k \in 1..Len(term) |-> k], Test)
    IN [j \in 1..Len(at) |-> term[at[j]]]

FallbackLines == Pick(IsFallbackLine)
OverlayLines == Pick(IsOverlayLine)

\* the indices of the display lines that are not empty, in order
NonEmptyLines ==
    SelectSeq([k \in 1..Len(lines) |-> k],
              LAMBDA k : LineWidth(lines[k]) > 0)

\* the u16 arithmetic on the display width is exact: no truncating cast, no
\* overflowing sum
ExactWidths == MaxInfoChars(lines) + 2 <= U16_MAX

----------------------------------------------------------------------------
(* Properties *)

\* C1: the fallback loop never runs after the raster path has written to
\* the terminal: when print_info enters the loop nothing has been written.
\* Stated for the runs with exact width arithmetic, so that a violation owes
\* nothing to C2.
C1_FallbackOnlyOnCleanTerminal ==
    (pc = "fallback" /\ idx = 0 /\ ExactWidths) => term = <<>>

\* C2: if W - (M + 2) < 10, for W the terminal width and M the maximum
\* character count of the display lines, print_info goes to the fallback
\* loop and the raster steps are never tried.
C2_NarrowTerminalNeverTriesRaster ==
    (lines # <<>> /\ env.term_cols - (MaxInfoChars(lines) + 2) < 10)
        => /\ raster.state = "not_tried"
           /\ pc \in {"fallback", "done", "panic_stdout", "exit_101"}

\* C3: row alignment: when print_info returns, the cursor is
\* max(mascot rows, display lines) rows below where it began on the fallback
\* path, and max(image height, display lines) rows below the anchor, before
\* the trailing newline, on the raster path.  Stated for the runs with exact
\* width arithmetic, so that a violation owes nothing to C2.
C3_RowAlignment ==
    (pc = "done" /\ ExactWidths) =>
        IF raster.state = "completed"
        THEN cursor.row - 1 = Max(image.height, Len(lines))
        ELSE cursor.row = Max(Len(Art(args)), Len(lines))

\* C4: progress_bar returns for all used, total and width, with a
\* percentage in 0..100 (0 when total is 0), floor(percentage * width / 100)
\* filled glyphs, at most width, and width glyphs in all.
C4_BarAlwaysWidthGlyphs ==
    pc = "returned" =>
        /\ ret.ok
        /\ ret.percentage \in 0..100
        /\ call.total = 0 => ret.percentage = 0
        /\ ret.filled = (ret.percentage * call.width) \div 100
        /\ ret.filled <= call.width
        /\ Cardinality({k \in 1..Len(ret.bar) : ret.bar[k] \in {"#", "-"}})
               = call.width
        /\ \A k \in 1..Len(ret.bar) :
               (ret.bar[k] = "#") <=> (k \in 2..(ret.filled + 1))

\* C5: format_uptime(s) is the space-joined sequence holding "Dd" iff D > 0,
\* "Hh" iff H > 0 and "Mm" iff M > 0 or D = H = 0, in that order; it is
\* never empty and its last component is digits followed by d, h or m.
C5_UptimeComponents ==
    pc = "returned" =>
        LET s == call.seconds
            D == s \div 86400
            H == (s % 86400) \div 3600
            M == (s % 3600) \div 60
            expected ==
                (IF D > 0 THEN <<Dec(D) \o <<"d">>>> ELSE <<>>)
                \o (IF H > 0 THEN <<Dec(H) \o <<"h">>>> ELSE <<>>)
                \o (IF M > 0 \/ (D = 0 /\ H = 0)
                    THEN <<Dec(M) \o <<"m">>>> ELSE <<>>)
            parts == Split(ret)
        IN /\ parts = expected
           /\ ret # <<>>
           /\ IsUnitToken(parts[Len(parts)])
           /\ s = 0 => ret = <<"0", "m">>
           /\ s = 3661 => ret = <<"1", "h", " ", "1", "m">>
           /\ s = 90000 => ret = <<"1", "d", " ", "1", "h">>

C5_Witness ==
    /\ pc = "returned"
    /\ call.seconds = 90000
    /\ ret = <<"1", "d", " ", "1", "h">>

\* C6: with limit = max(4, info_columns - 5 - len(" (N cores)")), the
\* subtraction floored at zero, a CPU string longer than limit is shown as
\* its first limit - 3 characters followed by "...", and a string of at most
\* limit characters is shown as it is.
C6_CpuTruncation ==
    pc = "returned" =>
        LET info_cols == IF call.no_art THEN call.term_cols
                         ELSE Max(0, call.term_cols - 25)
            n == call.cpu_cores
            suffix == 9 + (IF n < 10 THEN 1 ELSE IF n < 100 THEN 2 ELSE 3)
            limit == Max(4, Max(0, info_cols - 5 - suffix))
        IN IF Len(call.cpu) > limit
           THEN /\ Len(ret) = limit
                /\ SubSeq(ret, 1, limit - 3) = SubSeq(call.cpu, 1, limit - 3)
                /\ SubSeq(ret, limit - 2, limit) = <<".", ".", ".">>
           ELSE ret = call.cpu

C6_Witness ==
    /\ pc = "returned"
    /\ ~call.no_art
    /\ call.term_cols = 47
    /\ call.cpu_cores = 16
    /\ Len(call.cpu) = 12
    /\ ret = <<"A", "M", "D", ".", ".", ".">>

\* C7: with --minimal, --no-color and --no-art, print_info returns having
\* printed exactly six non-empty lines, title, separator, OS, Kernel,
\* Uptime, Shell in that order, each from column 0, with no CPU, Memory or
\* palette line, no mascot cell and no raster attempt.
C7_MinimalPlainOutput ==
    (pc = "done" /\ args.minimal /\ args.no_color /\ args.no_art) =>
        LET printed == Pick(LAMBDA k : term[k].op = "line" /\ term[k].b > 0)
        IN /\ [k \in 1..Len(printed) |-> lines[printed[k].a].kind]
                = <<"title", "separator", "OS", "Kernel", "Uptime", "Shell">>
           /\ \A k \in 1..Len(printed) : printed[k].col = 0
           /\ \A k \in 1..Len(term) : term[k].op \in {"line", "newline"}
           /\ raster.state = "not_tried"

C7_Witness ==
    /\ pc = "done"
    /\ args.minimal /\ args.no_color /\ args.no_art
    /\ info.username = 3 /\ info.hostname = 3
    /\ Cardinality(Positions("line")) = 6
    /\ Cardinality(Positions("newline")) = 7

\* C8, as first stated: after any failure in the raster path print_info
\* still ends with every display line written, no error reaching the user:
\* once a step of the raster path has failed, print_info is in the fallback
\* loop or has returned from it.
C8_NoErrorAfterRasterFailure ==
    (raster.state = "failed" /\ ExactWidths) => pc \in {"fallback", "done"}

\* C8, amended: every failure in the raster path is swallowed and sends
\* print_info into the fallback loop, and whenever print_info then returns,
\* the loop has written every display line in full, in order; the one
\* error that can still reach the user is the panic of the loop's own
\* print!/println! when its write to stdout fails.
C8_RasterFailureFallsBack ==
    raster.state = "failed" =>
        /\ pc \in {"fallback", "done", "panic_stdout", "exit_101"}
        /\ pc = "done" =>
              /\ [k \in 1..Len(FallbackLines) |-> FallbackLines[k].a]
                    = NonEmptyLines
              /\ \A k \in 1..Len(FallbackLines) :
                    FallbackLines[k].b = LineWidth(lines[FallbackLines[k].a])
              /\ Cardinality(Positions("art")) = MaxLines(args, lines)

C8_Witness ==
    /\ raster.state = "failed"
    /\ raster.at = "line_write"
    /\ pc = "done"
    /\ Len(OverlayLines) = 3

\* C9: the width arithmetic of print_info never fails, whatever the
\* terminal width: the subtractions floor at zero and print_info reaches
\* its output.
C9_WidthArithmeticNeverFails ==
    /\ pc # "panic_overflow"
    /\ lines # <<>> =>
          max_image_width \in {None} \cup (MIN_IMAGE_WIDTH..MAX_IMAGE_WIDTH)

\* C10: in the raster path the cursor is moved up to the image's top row
\* right after the image is printed; display line i is written at row
\* anchor + i and column min(image width + 2, terminal columns), the lines
\* in index order, each after RestorePosition, MoveDown(i) for i > 0 and
\* MoveToColumn; and the move to max(image height, line count) rows below
\* the anchor comes after the last line, followed by exactly one newline.
\* (An empty display line puts no text on the terminal.)
C10_OverlayOrder ==
    LET anchor == term[1].row
        offset == Min(image.width + 2, env.term_cols)
        overlay == {k \in 1..Len(term) : IsOverlayLine(k)}
        final == {k \in Positions("MoveDown") : /\ k < Len(term)
                                             /\ term[k + 1].op = "MoveToColumn"
                                             /\ term[k + 1].a = 0}
    IN Positions("image") # {} =>
        /\ Positions("image") = {1}
        /\ \A k \in 2..Len(term) :
              term[k].op \in {"MoveToColumn", "SavePosition", "RestorePosition",
                              "MoveDown"} \/ IsOverlayLine(k)
                  => (term[2].op = "MoveUp" /\ term[2].a = image.height)
        /\ \A k \in Positions("SavePosition") :
              k = 4 /\ term[k].row = anchor /\ saved.row = anchor
        /\ \A k \in overlay :
              /\ term[k].row = anchor + (term[k].a - 1)
              /\ term[k].col = offset
              /\ Cardinality({i \in 1..term[k].a : LineWidth(lines[i]) > 0})
                    = Cardinality({j \in overlay : j <= k})
              /\ term[k - 1].op = "MoveToColumn" /\ term[k - 1].a = offset
              /\ IF term[k].a = 1
                 THEN term[k - 2].op = "RestorePosition"
                 ELSE /\ term[k - 2].op = "MoveDown"
                      /\ term[k - 2].a = term[k].a - 1
                      /\ term[k - 3].op = "RestorePosition"
        /\ \A k \in final :
              /\ term[k].a = Max(image.height, Len(lines))
              /\ term[k - 1].op = "RestorePosition"
              /\ Cardinality(overlay) = Len(NonEmptyLines)
              /\ \A j \in overlay : j < k
        /\ raster.state = "completed" =>
              /\ Cardinality(final) = 1
              /\ \A k \in final :
                    /\ k + 2 = Len(term)
                    /\ term[k + 2].op = "newline"
                    /\ term[k + 2].row = anchor + Max(image.height, Len(lines))

C10_Witness ==
    /\ pc = "done"
    /\ raster.state = "completed"
    /\ image.height > Len(lines)
    /\ Cardinality({k \in 1..Len(term) : IsOverlayLine(k)}) = 10
    /\ \A k \in 1..Len(term) :
          IsOverlayLine(k) => term[k].b = LineWidth(lines[term[k].a])

=============================================================================
